---- MODULE Spec2Model ----
(***************************************************************************)
(* A model of the temporal coordinates of src/src/coord/datetime.rs:       *)
(* RangedDate, Monthly, Yearly, RangedDateTime and RangedDuration, their   *)
(* mapping (map), their tick selection (key_points) and their discrete     *)
(* stepping (next_value / previous_value).                                 *)
(*                                                                         *)
(* Representation of the values.                                           *)
(*   Date<Z>      a day number (days since 1970-01-01, proleptic Gregorian)*)
(*   DateTime<Z>  a record [date |-> day number, time |-> time of day]     *)
(*   Duration     a record [n |-> count, unit |-> "ns" | "ms" | "day"]     *)
(* TLC's integers are 32 bits wide, so a span of days cannot be written in *)
(* nanoseconds.  A Duration therefore carries the unit its count is in.    *)
(* The time of day of a DateTime is counted in milliseconds.  The code     *)
(* only ever divides two nanosecond counts, takes one modulo the other or  *)
(* compares them, and each of these commutes with a common scaling of the  *)
(* operands; the places where it does not (the seed of the period search,  *)
(* the unsigned reinterpretation of a negative count) take the resolution  *)
(* of their operands as an explicit parameter `res` (nanoseconds per unit).*)
(*                                                                         *)
(* A result is a record [ok |-> BOOLEAN, v |-> value]: ok = FALSE is a     *)
(* panic of the Rust code (division by zero, arithmetic overflow, an       *)
(* invalid calendar date handed to chrono).                                *)
(*                                                                         *)
(* The module also models the BitMapBackend of                             *)
(* src/src/drawing/backend_impl/bitmap.rs: its image, its saved flag and   *)
(* its target (a file, a byte buffer or a GIF encoder), under the          *)
(* operations draw_pixel, ensure_prepared, present and drop.  An image is  *)
(* a record [width, height, data] whose data are its raw bytes, three per  *)
(* pixel, row by row.                                                      *)
(***************************************************************************)
EXTENDS Integers, Sequences, FiniteSets, TLC

VARIABLES
    call,        \* the operation this run calls
    pc,          \* "ready" before the call, "done" after it
    self,        \* the coordinate (for compute_period_per_point: its arguments)
    max_points,  \* key_points' budget
    limit,       \* map's pixel range <<lo, hi>>
    value,       \* map's value, next_value/previous_value's value
    value0,      \* the value before any discrete step
    steps,       \* the discrete steps taken, in order
    ret,         \* the result of the operation
    target,      \* BitMapBackend::target and what it holds
    img,         \* BitMapBackend::img
    saved        \* BitMapBackend::saved

vars == <<call, pc, self, max_points, limit, value, value0, steps, ret,
          target, img, saved>>

----------------------------------------------------------------------------
(* Bounds of the model *)

\* key_points budgets run over 0..MaxPoints
MaxPoints == 4
\* RangedDate intervals span 0..MaxSpanDays days
MaxSpanDays == 30
\* Monthly / Yearly intervals begin in BaseYear and end at most MaxSpanYears
\* later, or LongSpanYears later
MaxSpanYears == 2
LongSpanYears == 25
\* RangedDateTime intervals span at most MaxSpanDateTimeDays days
MaxSpanDateTimeDays == 3
\* the short intervals that map is applied to span 1..MaxMapSpan units
MaxMapSpan == 5
\* next_value / previous_value are applied at most MaxSteps times in a row
MaxSteps == 2
\* pixel coordinates run over -MaxPixel..MaxPixel
MaxPixel == 3
\* RangedDuration (nanosecond resolution) bounds run over -MaxNanos..MaxNanos
MaxNanos == 12
\* bitmap images are 1..MaxDim pixels wide and high
MaxDim == 2
\* a backend takes at most MaxOps operations before it is dropped
MaxOps == 3

----------------------------------------------------------------------------
(* Results *)

Ok(v) == [ok |-> TRUE, v |-> v]

Panic == [ok |-> FALSE, v |-> <<>>]

----------------------------------------------------------------------------
(* Integer arithmetic of Rust *)

Abs(x) == IF x < 0 THEN -x ELSE x

\* Rust's `/` on signed integers truncates toward zero
TruncDiv(a, b) ==
    IF (a >= 0) = (b > 0) THEN Abs(a) \div Abs(b) ELSE -(Abs(a) \div Abs(b))

\* Rust's `%` on signed integers: the sign of the dividend
TruncRem(a, b) == a - b * TruncDiv(a, b)

RECURSIVE Pow10(_)
Pow10(k) == IF k <= 0 THEN 1 ELSE 10 * Pow10(k - 1)

----------------------------------------------------------------------------
(* The calendar of chrono, as far as the code uses it *)

IsLeapYear(y) == (y % 4 = 0 /\ y % 100 # 0) \/ y % 400 = 0

DaysInMonth(y, m) ==
    IF m = 2 THEN (IF IsLeapYear(y) THEN 29 ELSE 28)
    ELSE IF m \in {4, 6, 9, 11} THEN 30 ELSE 31

\* TimeZone::ymd panics on a date that does not exist
ValidYmd(y, m, d) == m \in 1..12 /\ d \in 1..DaysInMonth(y, m)

\* TimeZone::ymd: the day number of a valid calendar date
ymd(y, m, d) ==
    LET yy  == IF m <= 2 THEN y - 1 ELSE y
        era == yy \div 400
        yoe == yy - era * 400
        mp  == IF m > 2 THEN m - 3 ELSE m + 9
        doy == (153 * mp + 2) \div 5 + d - 1
        doe == yoe * 365 + yoe \div 4 - yoe \div 100 + doy
    IN  era * 146097 + doe - 719468

\* Datelike::year, month, day of a day number
Civil(date) ==
    LET z   == date + 719468
        era == z \div 146097
        doe == z - era * 146097
        yoe == (doe - doe \div 1460 + doe \div 36524 - doe \div 146096) \div 365
        doy == doe - (365 * yoe + yoe \div 4 - yoe \div 100)
        mp  == (5 * doy + 2) \div 153
        d   == doy - (153 * mp + 2) \div 5 + 1
        m   == IF mp < 10 THEN mp + 3 ELSE mp - 9
        y   == yoe + era * 400 + (IF m <= 2 THEN 1 ELSE 0)
    IN  [year |-> y, month |-> m, day |-> d]

year(date) == Civil(date).year

month(date) == Civil(date).month

day(date) == Civil(date).day

----------------------------------------------------------------------------
(* Units of time *)

\* milliseconds per second, the resolution of a DateTime's time of day
MsPerSec == Pow10(3)

MsPerDay == 86400 * MsPerSec

\* nanoseconds per unit of a count at nanosecond (millisecond) resolution
NanoRes == Pow10(0)

MilliRes == Pow10(6)

\* the largest whole number of days whose nanoseconds fit an i64
\* (Duration::num_nanoseconds is None beyond it)
MaxNsDays == 106751

Dur(n, unit) == [n |-> n, unit |-> unit]

\* Duration::num_nanoseconds(): Some exactly when the count fits an i64.  Every
\* count of the model at "ns" or "ms" resolution does.
ns_representable(d) == d.unit # "day" \/ Abs(d.n) <= MaxNsDays

\* Duration::num_days(): whole days, truncated toward zero
num_days(d) ==
    IF d.unit = "day" THEN d.n
    ELSE IF d.unit = "ms" THEN TruncDiv(d.n, MsPerDay)
    ELSE 0

----------------------------------------------------------------------------
(* trait TimeValue, implemented by Date<Z> (T = "Date") and DateTime<Z>    *)
(* (T = "DateTime")                                                        *)

DateTime(date, time) == [date |-> date, time |-> time]

date_floor(T, x) == IF T = "Date" THEN x ELSE x.date

date_ceil(T, x) ==
    IF T = "Date" THEN x
    ELSE IF x.time \div MsPerSec > 0 THEN x.date + 1 ELSE x.date

earliest_after_date(T, date) == IF T = "Date" THEN date ELSE DateTime(date, 0)

subtract(T, a, b) ==
    IF T = "Date" THEN Dur(a - b, "day")
    ELSE Dur((a.date - b.date) * MsPerDay + a.time - b.time, "ms")

\* the order of the values of type T
Before(T, a, b) ==
    IF T = "Date" THEN a < b
    ELSE a.date < b.date \/ (a.date = b.date /\ a.time < b.time)

\* the cast taken through an unsigned type: the sign is lost
F64ToI32_unsigned(num, den) == Abs(num) \div Abs(den)

\* `x as i32` of the f64 num/den (den > 0): truncation toward zero.  The
\* operands of the model are far below 2^53, where the f64 product is exact
\* and the quotient correctly rounded, so the truncation is that of the
\* exact quotient.
F64ToI32(num, den) == TruncDiv(num, den)

\* map_coord without the offset lo of the pixel range
map_coord_no_offset(T, v, begin, end, lim) ==
    LET total_span == subtract(T, end, begin)
        value_span == subtract(T, v, begin)
    IN  IF ns_representable(total_span) /\ ns_representable(value_span)
        THEN F64ToI32((lim[2] - lim[1]) * value_span.n, total_span.n)
        ELSE F64ToI32((lim[2] - lim[1]) * num_days(value_span),
                      num_days(total_span))

map_coord(T, v, begin, end, lim) ==
    LET total_span == subtract(T, end, begin)
        value_span == subtract(T, v, begin)
    IN  IF ns_representable(total_span) /\ ns_representable(value_span)
        THEN F64ToI32((lim[2] - lim[1]) * value_span.n, total_span.n) + lim[1]
        ELSE F64ToI32((lim[2] - lim[1]) * num_days(value_span),
                      num_days(total_span)) + lim[1]

----------------------------------------------------------------------------
(* RangedDate: self = [begin |-> Date, end |-> Date] *)

\* the largest value TLC can hold stands for usize::MAX, the result of the
\* saturating cast `f64::INFINITY as usize`
USIZE_MAX == 2147483647

\* week_per_point with the quotient rounded down instead of up
week_per_point_floor(total_weeks, n) ==
    IF n = 0 THEN (IF total_weeks = 0 THEN 0 ELSE USIZE_MAX)
    ELSE total_weeks \div n

\* ((total_weeks as f64) / (max_points as f64)).ceil() as usize.
\* max_points = 0 divides by 0.0: the quotient is +inf (cast: usize::MAX), or
\* NaN when total_weeks is 0 too (cast: 0).
week_per_point(total_weeks, n) ==
    IF n = 0 THEN (IF total_weeks = 0 THEN 0 ELSE USIZE_MAX)
    ELSE (total_weeks + n - 1) \div n

\* RangedDate::key_points stepping one week per point whatever week_per_point is
RangedDate_key_points_weekly(this, n) ==
    LET total_days  == num_days(subtract("Date", this.end, this.begin))
        total_weeks == TruncDiv(total_days, 7)
    IN  IF total_days > 0 /\ total_days <= n
        THEN Ok([day_idx \in 1..(total_days + 1) |-> this.begin + (day_idx - 1)])
        ELSE IF week_per_point(total_weeks, n) = 0
        THEN Panic
        ELSE Ok([idx \in 1..(total_weeks + 1) |-> this.begin + 7 * (idx - 1)])

RangedDate_key_points(this, n) ==
    LET total_days  == num_days(subtract("Date", this.end, this.begin))
        total_weeks == TruncDiv(total_days, 7)
    IN  IF total_days > 0 /\ total_days <= n
        THEN Ok([day_idx \in 1..(total_days + 1) |-> this.begin + (day_idx - 1)])
        ELSE IF total_weeks > 0 /\ total_weeks <= n
        THEN Ok([day_idx \in 1..(total_weeks + 1) |->
                    this.begin + 7 * (day_idx - 1)])
        ELSE LET wpp == week_per_point(total_weeks, n)
             IN  IF wpp = 0
                 THEN Panic  \* total_weeks as usize / 0
                 ELSE Ok([idx \in 1..(total_weeks \div wpp + 1) |->
                             this.begin + 7 * ((idx - 1) * wpp)])

RangedDate_next_value(this) == Ok(this + 1)

RangedDate_previous_value(this) == Ok(this - 1)

----------------------------------------------------------------------------
(* Monthly<T> and Yearly<T>: self = [T |-> "Date" | "DateTime",            *)
(*                                   begin |-> T, end |-> T]               *)

\* `x as usize <= n` for an i32 x: a negative x casts to a huge usize
\* the comparison with the boundary left out
AsUsizeLt(x, n) == x >= 0 /\ x < n

AsUsizeLeq(x, n) == x >= 0 /\ x <= n

\* the (year, month) the key points start from: the first of the month of
\* date_ceil(begin), or of the following month when that is not a 1st
NormalizedStart(T, begin) ==
    LET start_date == date_ceil(T, begin)
        y == year(start_date)
        m == month(start_date)
    IN  IF day(start_date) # 1
        THEN (IF m + 1 = 13 THEN [year |-> y + 1, month |-> 1]
                            ELSE [year |-> y, month |-> m + 1])
        ELSE [year |-> y, month |-> m]

RECURSIVE generate_key_points(_, _, _, _, _, _, _)
generate_key_points(T, start_year, start_month, end_year, end_month, step, acc) ==
    IF end_year > start_year \/ (end_year = start_year /\ end_month >= start_month)
    THEN IF ~ValidYmd(start_year, start_month, 1) THEN Panic
         ELSE LET pt == earliest_after_date(T, ymd(start_year, start_month, 1))
                  m  == start_month + step
              IN  IF m >= 13
                  THEN generate_key_points(T, start_year + m \div 12, m % 12,
                           end_year, end_month, step, Append(acc, pt))
                  ELSE generate_key_points(T, start_year, m,
                           end_year, end_month, step, Append(acc, pt))
    ELSE Ok(acc)

RECURSIVE YearlyExp10(_, _, _)
YearlyExp10(years, n, exp10) ==
    IF years \div (exp10 * 10) > n THEN YearlyExp10(years, n, exp10 * 10)
    ELSE exp10

YearlyFreq(years, n, exp10) ==
    IF years \div (exp10 * 1) <= n THEN 1 * exp10
    ELSE IF years \div (exp10 * 2) <= n THEN 2 * exp10
    ELSE IF years \div (exp10 * 5) <= n THEN 5 * exp10
    ELSE 10 * exp10

RECURSIVE YearlyEmit(_, _, _, _, _, _)
YearlyEmit(T, start_year, start_month, end_year, freq, acc) ==
    IF start_year <= end_year
    THEN YearlyEmit(T, start_year + freq, start_month, end_year, freq,
             Append(acc, earliest_after_date(T, ymd(start_year, start_month, 1))))
    ELSE Ok(acc)

generate_yearly_keypoints(T, n, start_year, start_month, end_year, end_month) ==
    LET ey    == IF start_month > end_month THEN end_year - 1 ELSE end_year
        years == ey - start_year + 1
        exp10 == YearlyExp10(years, n, 1)
        freq  == YearlyFreq(years, n, exp10)
    IN  YearlyEmit(T, start_year, start_month, ey, freq, <<>>)

Monthly_key_points(this, n) ==
    LET start       == NormalizedStart(this.T, this.begin)
        end_date    == date_floor(this.T, this.end)
        end_year    == year(end_date)
        end_month   == month(end_date)
        total_month == (end_year - start.year) * 12 + end_month - start.month
    IN  IF AsUsizeLeq(total_month, n)
        THEN generate_key_points(this.T, start.year, start.month,
                                 end_year, end_month, 1, <<>>)
        ELSE IF AsUsizeLeq(total_month, n * 3)
        THEN generate_key_points(this.T, start.year, start.month,
                                 end_year, end_month, 3, <<>>)
        ELSE IF AsUsizeLeq(total_month, n * 6)
        THEN generate_key_points(this.T, start.year, start.month,
                                 end_year, end_month, 6, <<>>)
        ELSE generate_yearly_keypoints(this.T, n, start.year, start.month,
                                       end_year, end_month)

Yearly_key_points(this, n) ==
    LET start    == NormalizedStart(this.T, this.begin)
        end_date == date_floor(this.T, this.end)
    IN  generate_yearly_keypoints(this.T, n, start.year, start.month,
                                  year(end_date), month(end_date))

Monthly_next_value(T, this) ==
    LET y == year(date_ceil(T, this))
        m == month(date_ceil(T, this)) + 1
        d == day(date_ceil(T, this))
        yy == IF m = 13 THEN y + 1 ELSE y
        mm == IF m = 13 THEN 1 ELSE m
    IN  IF ValidYmd(yy, mm, d) THEN Ok(earliest_after_date(T, ymd(yy, mm, d)))
        ELSE Panic

\* previous_value without the borrow from the year when it leaves January
Monthly_previous_value_no_borrow(T, this) ==
    LET y == year(date_floor(T, this))
        m == month(date_floor(T, this)) - 1
        d == day(date_floor(T, this))
        mm == IF m = 0 THEN 12 ELSE m
    IN  IF ValidYmd(y, mm, d) THEN Ok(earliest_after_date(T, ymd(y, mm, d)))
        ELSE Panic

Monthly_previous_value(T, this) ==
    LET y == year(date_floor(T, this))
        m == month(date_floor(T, this)) - 1
        d == day(date_floor(T, this))
        yy == IF m = 0 THEN y - 1 ELSE y
        mm == IF m = 0 THEN 12 ELSE m
    IN  IF ValidYmd(yy, mm, d) THEN Ok(earliest_after_date(T, ymd(yy, mm, d)))
        ELSE Panic

Yearly_next_value(T, this) ==
    Ok(earliest_after_date(T, ymd(year(date_floor(T, this)) + 1, 1, 1)))

Yearly_previous_value(T, this) ==
    Ok(earliest_after_date(T, ymd(year(date_ceil(T, this)) - 1, 1, 1)))

----------------------------------------------------------------------------
(* The period search.  Counts are in units of `res` nanoseconds (NanoRes or *)
(* MilliRes); a period is returned in the same unit.                        *)

Some(x) == <<x>>

None == <<>>

\* (min_ns_per_point as f64).log10().floor() as u32, less log10(res), of the
\* quotient q = total_ns / max_points: the largest k with 10^k <= q.  A
\* quotient below 1 has a negative logarithm, which the cast saturates to 0.
RECURSIVE Log10Floor(_)
Log10Floor(q) == IF q >= 10 THEN 1 + Log10Floor(q \div 10) ELSE 0

\* deterime_actual_ns_per_point returning the unit without its multiplier
RECURSIVE deterime_actual_ns_per_point_unit(_, _, _, _, _, _)
deterime_actual_ns_per_point_unit(total_ns, actual_ns_per_point, units, base, n, idx) ==
    IF total_ns \div actual_ns_per_point > n * units[idx]
    THEN IF idx + 1 = Len(units) + 1
         THEN deterime_actual_ns_per_point_unit(total_ns,
                  actual_ns_per_point * base, units, base, n, 1)
         ELSE deterime_actual_ns_per_point_unit(total_ns, actual_ns_per_point,
                                                units, base, n, idx + 1)
    ELSE Ok(Some(actual_ns_per_point))

RECURSIVE deterime_actual_ns_per_point(_, _, _, _, _, _)
deterime_actual_ns_per_point(total_ns, actual_ns_per_point, units, base, n, idx) ==
    IF total_ns \div actual_ns_per_point > n * units[idx]
    THEN IF idx + 1 = Len(units) + 1
         THEN deterime_actual_ns_per_point(total_ns, actual_ns_per_point * base,
                                           units, base, n, 1)
         ELSE deterime_actual_ns_per_point(total_ns, actual_ns_per_point,
                                           units, base, n, idx + 1)
    ELSE Ok(Some(units[idx] * actual_ns_per_point))

\* 1_000_000_000 ns, the bound of the sub-second regime
NsPerSec == 1000000000

\* compute_period_per_point with the test of sub_daily left out
compute_period_per_point_any(total_ns, n, sub_daily, res) ==
    LET second == NsPerSec \div res
        hour   == 3600 * second
        actual_ns_per_point ==
            IF n = 0 THEN 1 ELSE Pow10(Log10Floor(total_ns \div n))
    IN  IF n = 0 /\ total_ns > 0
        THEN Panic
        ELSE IF actual_ns_per_point < second
        THEN deterime_actual_ns_per_point(total_ns, actual_ns_per_point,
                 <<1, 2, 5>>, 10, n, 1)
        ELSE IF actual_ns_per_point < hour
        THEN deterime_actual_ns_per_point(total_ns, second,
                 <<1, 2, 5, 10, 15, 20, 30>>, 60, n, 1)
        ELSE IF actual_ns_per_point < hour * 24
        THEN deterime_actual_ns_per_point(total_ns, hour,
                 <<1, 2, 4, 8, 12>>, 24, n, 1)
        ELSE IF actual_ns_per_point < hour * 24 * 10
        THEN deterime_actual_ns_per_point(total_ns, hour * 24,
                 <<1, 2, 5, 7>>, 10, n, 1)
        ELSE deterime_actual_ns_per_point(total_ns, hour * 24 * 10,
                 <<1, 2, 5>>, 10, n, 1)

compute_period_per_point(total_ns, n, sub_daily, res) ==
    LET second == NsPerSec \div res
        hour   == 3600 * second
        \* 0.0 / 0.0 is NaN, which every cast takes to 0: the seed is 10^0
        actual_ns_per_point ==
            IF n = 0 THEN 1 ELSE Pow10(Log10Floor(total_ns \div n))
    IN  IF n = 0 /\ total_ns > 0
        THEN Panic  \* total / 0.0 = inf; 10u64.pow(u32::MAX) overflows
        ELSE IF actual_ns_per_point < second
        THEN deterime_actual_ns_per_point(total_ns, actual_ns_per_point,
                 <<1, 2, 5>>, 10, n, 1)
        ELSE IF actual_ns_per_point < hour
        THEN deterime_actual_ns_per_point(total_ns, second,
                 <<1, 2, 5, 10, 15, 20, 30>>, 60, n, 1)
        ELSE IF actual_ns_per_point < hour * 24
        THEN deterime_actual_ns_per_point(total_ns, hour,
                 <<1, 2, 4, 8, 12>>, 24, n, 1)
        ELSE IF ~sub_daily
        THEN IF actual_ns_per_point < hour * 24 * 10
             THEN deterime_actual_ns_per_point(total_ns, hour * 24,
                      <<1, 2, 5, 7>>, 10, n, 1)
             ELSE deterime_actual_ns_per_point(total_ns, hour * 24 * 10,
                      <<1, 2, 5>>, 10, n, 1)
        ELSE Ok(None)

----------------------------------------------------------------------------
(* RangedDateTime: self = [begin |-> DateTime, end |-> DateTime] *)

\* DateTime + Duration: the time of day carries into the date
DateTimePlus(x, d) ==
    DateTime(x.date + (x.time + d) \div MsPerDay, (x.time + d) % MsPerDay)

\* NaiveTime + Duration wraps around at 24:00 and drops the whole days
NaiveTimePlus(time, d) == (time + d) % MsPerDay

RECURSIVE DateTimeTicks(_, _, _, _)
DateTimeTicks(start_time, end, period, acc) ==
    IF Before("DateTime", start_time, end)
    THEN DateTimeTicks(DateTimePlus(start_time, period), end, period,
                       Append(acc, start_time))
    ELSE acc

\* the first tick: begin's date at begin's time of day rounded up to a
\* multiple of the period
FirstTick(begin, period) ==
    LET start_time_ns == begin.time
    IN  DateTime(date_floor("DateTime", begin),
          NaiveTimePlus(0,
            IF start_time_ns % period > 0
            THEN start_time_ns + (period - (start_time_ns % period))
            ELSE start_time_ns))

RangedDateTime_key_points(this, n) ==
    LET total_span == subtract("DateTime", this.end, this.begin)
        engine     == IF ns_representable(total_span)
                      THEN compute_period_per_point(total_span.n, n, TRUE, MilliRes)
                      ELSE Ok(None)
    IN  IF ~engine.ok THEN Panic
        ELSE IF engine.v # None
        THEN Ok(DateTimeTicks(FirstTick(this.begin, engine.v[1]), this.end,
                              engine.v[1], <<>>))
        ELSE LET date_range == [begin |-> date_ceil("DateTime", this.begin),
                                end   |-> date_floor("DateTime", this.end)]
                 dates == RangedDate_key_points(date_range, n)
             IN  IF ~dates.ok THEN Panic
                 ELSE Ok([i \in 1..Len(dates.v) |-> DateTime(dates.v[i], 0)])

----------------------------------------------------------------------------
(* RangedDuration: self = [begin |-> Duration, end |-> Duration], both in  *)
(* the same unit.  A coordinate in days stands for a span beyond the i64   *)
(* nanosecond range.                                                       *)

ResOf(unit) == IF unit = "ns" THEN NanoRes ELSE MilliRes

\* `(x + 1e-10) as i32` of the f64 x = num/den (den > 0): the epsilon is below
\* 1/den, so it changes the truncation exactly when x is a negative integer
\* (-3 + 1e-10 truncates to -2) and never for x >= 0
F64EpsToI32(num, den) ==
    IF num >= 0 THEN num \div den ELSE -((-num - 1) \div den)

RangedDuration_map(this, v, lim) ==
    LET total_span == Dur(this.end.n - this.begin.n, this.begin.unit)
        value_span == Dur(v.n - this.begin.n, this.begin.unit)
    IN  IF ns_representable(total_span)
        THEN IF ns_representable(value_span)
             THEN lim[1] + F64EpsToI32((lim[2] - lim[1]) * value_span.n,
                                       total_span.n)
             ELSE lim[2]
        ELSE lim[1] + F64EpsToI32((lim[2] - lim[1]) * num_days(value_span),
                                  num_days(total_span))

\* 2^k modulo p
RECURSIVE Pow2Mod(_, _)
Pow2Mod(k, p) == IF k = 0 THEN 1 % p ELSE (2 * Pow2Mod(k - 1, p)) % p

\* `start_ns as u64 % period > 0`: a negative start_ns is read as
\* 2^64 + start_ns.  At millisecond resolution 2^64 + start_ns is no multiple
\* of 10^6 (2^64 ends in ...551616), so the remainder is never 0.
AsU64RemPositive(start_ns, period, res) ==
    IF start_ns >= 0 THEN start_ns % period > 0
    ELSE IF res = NanoRes
    THEN (Pow2Mod(64, period) + (start_ns % period)) % period > 0
    ELSE TRUE

\* the first tick of the nanosecond path
AlignedStart(start_ns, period, res) ==
    IF AsU64RemPositive(start_ns, period, res)
    THEN IF start_ns > 0
         THEN start_ns + (period - TruncRem(start_ns, period))
         ELSE start_ns - TruncRem(start_ns, period)
    ELSE start_ns

RECURSIVE DurationTicks(_, _, _, _)
DurationTicks(current, end, period, acc) ==
    IF current.n < end.n
    THEN DurationTicks(Dur(current.n + period, current.unit), end, period,
                       Append(acc, current))
    ELSE acc

MULTIPLER == <<1, 2, 5>>

RECURSIVE DaysPerTick(_, _, _, _)
DaysPerTick(span_days, n, days_per_tick, idx) ==
    IF TruncDiv(span_days, days_per_tick * MULTIPLER[idx]) > n
    THEN IF idx + 1 = Len(MULTIPLER) + 1
         THEN DaysPerTick(span_days, n, days_per_tick * 10, 1)
         ELSE DaysPerTick(span_days, n, days_per_tick, idx + 1)
    ELSE days_per_tick * MULTIPLER[idx]

RangedDuration_key_points(this, n) ==
    LET total_span == Dur(this.end.n - this.begin.n, this.begin.unit)
        res        == ResOf(this.begin.unit)
        engine     == IF ns_representable(total_span)
                      THEN compute_period_per_point(total_span.n, n, FALSE, res)
                      ELSE Ok(None)
    IN  IF ~engine.ok THEN Panic
        ELSE IF engine.v # None
        THEN IF ~ns_representable(this.begin)
             THEN Panic  \* self.0.num_nanoseconds().unwrap()
             ELSE Ok(DurationTicks(
                      Dur(AlignedStart(this.begin.n, engine.v[1], res),
                          this.begin.unit),
                      this.end, engine.v[1], <<>>))
        ELSE LET begin_days == num_days(this.begin)
                 end_days   == num_days(this.end)
                 days_per_tick == DaysPerTick(end_days - begin_days, n, 1, 1)
                 \* a coordinate in days holds whole days:
                 \* Duration::days(self.0.num_days()) == self.0
                 current == Dur(num_days(this.begin) + 0, "day")
             IN  Ok(DurationTicks(current, this.end, days_per_tick, <<>>))

----------------------------------------------------------------------------
(* The inputs of the model *)

DateOrigin == ymd(2020, 1, 1)

BaseYear == year(DateOrigin)

Budgets == 0..MaxPoints

PixelRanges == (-MaxPixel..MaxPixel) \X (-MaxPixel..MaxPixel)

\* times of day, in ms: midnight, half a second, noon
CalendarTimes == {0, 500, 12 * 3600 * MsPerSec}

ValuesOf(T, dates) ==
    IF T = "Date" THEN dates
    ELSE {DateTime(d, t) : d \in dates, t \in CalendarTimes}

CalendarBegins ==
    {ymd(BaseYear, md[1], md[2]) :
        md \in {<<1, 1>>, <<3, 15>>, <<12, 1>>, <<12, 2>>}}

CalendarEnds ==
    {ymd(y, md[1], md[2]) :
        y \in (BaseYear..(BaseYear + MaxSpanYears)) \cup {BaseYear + LongSpanYears},
        md \in {<<1, 1>>, <<2, 28>>, <<7, 1>>, <<12, 31>>}}

\* Monthly and Yearly coordinates over the values of type T, begin <= end
CalendarCoordsOver(coord, T) ==
    {[coord |-> coord, T |-> T, begin |-> be[1], end |-> be[2]] :
        be \in {x \in ValuesOf(T, CalendarBegins) \X ValuesOf(T, CalendarEnds) :
                  ~Before(T, x[2], x[1])}}

RangedDateCoords ==
    {[coord |-> "RangedDate", T |-> "Date", begin |-> DateOrigin,
      end |-> DateOrigin + d] : d \in 0..MaxSpanDays}

\* times of day, in ms: midnight, 7 ms, 1.5 s, 06:00, 12:00, 23:30
ClockTimes ==
    {0, 7, 1500, 6 * 3600 * MsPerSec, 12 * 3600 * MsPerSec,
     23 * 3600 * MsPerSec + 1800 * MsPerSec}

RangedDateTimeCoords ==
    {[coord |-> "RangedDateTime", T |-> "DateTime", begin |-> DateTime(DateOrigin, t1),
      end |-> DateTime(DateOrigin + d, t2)] :
        <<t1, d, t2>> \in
            {x \in ClockTimes \X (0..MaxSpanDateTimeDays) \X ClockTimes :
                x[2] > 0 \/ x[1] < x[3]}}

\* RangedDuration at nanosecond resolution, at millisecond resolution (up to
\* 15 days), and in days beyond the i64 nanosecond range
RangedDurationCoords ==
    {[coord |-> "RangedDuration", T |-> "Duration",
      begin |-> Dur(b, "ns"), end |-> Dur(e, "ns")] :
        <<b, e>> \in {x \in (-MaxNanos..MaxNanos) \X (-MaxNanos..MaxNanos) :
                        x[1] <= x[2]}}
    \cup
    {[coord |-> "RangedDuration", T |-> "Duration",
      begin |-> Dur(b, "ms"), end |-> Dur(e, "ms")] :
        b \in {-500, 0, 250},
        e \in {500, 1000, 90 * MsPerSec, 2 * MsPerDay, 15 * MsPerDay}}
    \cup
    {[coord |-> "RangedDuration", T |-> "Duration",
      begin |-> Dur(b, "day"), end |-> Dur(MaxNsDays + e, "day")] :
        b \in {-5, 0}, e \in 1..MaxPoints}

\* key_points at millisecond resolution needs at least 1 ms per point for the
\* seed of the period search to be a whole number of milliseconds
Resolvable(c, n) ==
    \/ c.coord \notin {"RangedDateTime", "RangedDuration"}
    \/ c.coord = "RangedDuration" /\ c.begin.unit # "ms"
    \/ c.coord = "RangedDuration" /\ c.end.n - c.begin.n >= n
    \/ c.coord = "RangedDateTime"
         /\ subtract("DateTime", c.end, c.begin).n >= n

\* the intervals map is applied to: short ones, and ones of about
\* MaxNsDays days, on either side of the i64 nanosecond range
MapSpans == (1..MaxMapSpan) \cup ((MaxNsDays - 1)..(MaxNsDays + 2))

MapDateCoords(coord) ==
    {[coord |-> coord, T |-> "Date", begin |-> DateOrigin, end |-> DateOrigin + d] :
        d \in MapSpans}

MapDateTimeCoords(coord) ==
    {[coord |-> coord, T |-> "DateTime", begin |-> DateTime(DateOrigin, t1),
      end |-> DateTime(DateOrigin + d, t2)] :
        <<t1, d, t2>> \in
            {x \in {0, 7, 12 * 3600 * MsPerSec} \X (0..1) \X {0, 7, 12 * 3600 * MsPerSec} :
                x[2] > 0 \/ x[1] < x[3]}}

MapDurationCoords ==
    {[coord |-> "RangedDuration", T |-> "Duration",
      begin |-> Dur(b, u), end |-> Dur(b + d, u)] :
        b \in {-2, 0, 3}, d \in 1..MaxMapSpan, u \in {"ns", "ms"}}
    \cup
    {[coord |-> "RangedDuration", T |-> "Duration",
      begin |-> Dur(b, "day"), end |-> Dur(b + d, "day")] :
        b \in {-2, 0, 3}, d \in MapSpans}

\* the length of a coordinate's interval, in its unit
SpanOf(c) ==
    IF c.T = "Duration" THEN c.end.n - c.begin.n
    ELSE subtract(c.T, c.end, c.begin).n

\* the value `off` units after the begin of a coordinate
ValueAt(c, off) ==
    IF c.T = "Date" THEN c.begin + off
    ELSE IF c.T = "DateTime" THEN DateTimePlus(c.begin, off)
    ELSE Dur(c.begin.n + off, c.begin.unit)

\* offsets of the values map is applied to: begin, end, values between
\* them, and two past the end
MapOffsets(c) ==
    LET total == SpanOf(c)
    IN  {0, 1, total \div 3, total \div 2, total - 1, total, total + 2}

\* the days next_value / previous_value start from
DiscreteDays ==
    {ymd(BaseYear, md[1], md[2]) :
        md \in {x \in {1, 2, 3, 12} \X {1, 2, 27, 28, 29, 30, 31} :
                  ValidYmd(BaseYear, x[1], x[2])}}

DiscreteCoords ==
    {[coord |-> c, T |-> T] :
        <<c, T>> \in {<<"RangedDate", "Date">>, <<"Monthly", "Date">>,
                      <<"Monthly", "DateTime">>, <<"Yearly", "Date">>,
                      <<"Yearly", "DateTime">>}}

\* the arguments of compute_period_per_point: nanosecond counts of the
\* sub-second regime, millisecond counts up to 15 days
PeriodArgs ==
    {[coord |-> "period", total_ns |-> t, sub_daily |-> sd, res |-> NanoRes] :
        t \in 0..(2 * MaxNanos), sd \in BOOLEAN}
    \cup
    {[coord |-> "period", total_ns |-> t, sub_daily |-> sd, res |-> MilliRes] :
        t \in {7, 1000, 90 * MsPerSec, 6 * 3600 * MsPerSec, MsPerDay, MsPerDay + 1,
               2 * MsPerDay, 3 * MsPerDay, 15 * MsPerDay},
        sd \in BOOLEAN}

----------------------------------------------------------------------------
(* The state machine: a run draws a coordinate and the arguments of one    *)
(* call, then makes the call.                                              *)

NoValue == <<>>

InitKeyPoints ==
    /\ call = "key_points"
    /\ \/ self \in RangedDateCoords
       \/ self \in CalendarCoordsOver("Monthly", "Date")
       \/ self \in CalendarCoordsOver("Monthly", "DateTime")
       \/ self \in CalendarCoordsOver("Yearly", "Date")
       \/ self \in CalendarCoordsOver("Yearly", "DateTime")
       \/ self \in RangedDateTimeCoords
       \/ self \in RangedDurationCoords
    /\ max_points \in Budgets
    /\ Resolvable(self, max_points)
    /\ limit = <<0, 0>>
    /\ value = NoValue

InitMap ==
    /\ call = "map"
    /\ \/ self \in MapDateCoords("RangedDate")
       \/ self \in MapDateCoords("Monthly")
       \/ self \in MapDateCoords("Yearly")
       \/ self \in MapDateTimeCoords("Monthly")
       \/ self \in MapDateTimeCoords("Yearly")
       \/ self \in MapDateTimeCoords("RangedDateTime")
       \/ self \in MapDurationCoords
    /\ limit \in PixelRanges
    /\ \E off \in MapOffsets(self) : value = ValueAt(self, off)
    /\ max_points = 0

InitDiscrete ==
    /\ call = "discrete"
    /\ self \in DiscreteCoords
    /\ value \in ValuesOf(self.T, DiscreteDays)
    /\ limit = <<0, 0>>
    /\ max_points = 0

InitPeriod ==
    /\ call = "compute_period_per_point"
    /\ self \in PeriodArgs
    /\ max_points \in Budgets
    /\ self.res = NanoRes \/ self.total_ns >= max_points
    /\ limit = <<0, 0>>
    /\ value = NoValue

\* no backend exists in a run of the coordinate operations
NoBackend ==
    /\ target = [kind |-> "none", width |-> 0, height |-> 0, data |-> <<>>]
    /\ img = [width |-> 0, height |-> 0, data |-> <<>>]
    /\ saved = FALSE

Init ==
    /\ pc = "ready"
    /\ steps = <<>>
    /\ ret = Ok(NoValue)
    /\ (InitKeyPoints \/ InitMap \/ InitDiscrete \/ InitPeriod)
    /\ value0 = value
    /\ NoBackend

Return(r) ==
    /\ pc' = "done"
    /\ ret' = r
    /\ UNCHANGED <<call, self, max_points, limit, value, value0, steps>>
    /\ UNCHANGED <<target, img, saved>>

RangedDateKeyPoints ==
    /\ pc = "ready" /\ call = "key_points" /\ self.coord = "RangedDate"
    /\ Return(RangedDate_key_points(self, max_points))

MonthlyKeyPoints ==
    /\ pc = "ready" /\ call = "key_points" /\ self.coord = "Monthly"
    /\ Return(Monthly_key_points(self, max_points))

YearlyKeyPoints ==
    /\ pc = "ready" /\ call = "key_points" /\ self.coord = "Yearly"
    /\ Return(Yearly_key_points(self, max_points))

RangedDateTimeKeyPoints ==
    /\ pc = "ready" /\ call = "key_points" /\ self.coord = "RangedDateTime"
    /\ Return(RangedDateTime_key_points(self, max_points))

RangedDurationKeyPoints ==
    /\ pc = "ready" /\ call = "key_points" /\ self.coord = "RangedDuration"
    /\ Return(RangedDuration_key_points(self, max_points))

RangedDate_map(this, v, lim) == map_coord("Date", v, this.begin, this.end, lim)

Monthly_map(this, v, lim) == map_coord(this.T, v, this.begin, this.end, lim)

Yearly_map(this, v, lim) == map_coord(this.T, v, this.begin, this.end, lim)

RangedDateTime_map(this, v, lim) ==
    map_coord("DateTime", v, this.begin, this.end, lim)

\* Ranged::map of the coordinate c
Map(c, v, lim) ==
    CASE c.coord = "RangedDate" -> RangedDate_map(c, v, lim)
      [] c.coord = "Monthly" -> Monthly_map(c, v, lim)
      [] c.coord = "Yearly" -> Yearly_map(c, v, lim)
      [] c.coord = "RangedDateTime" -> RangedDateTime_map(c, v, lim)
      [] c.coord = "RangedDuration" -> RangedDuration_map(c, v, lim)

MapValue ==
    /\ pc = "ready" /\ call = "map"
    /\ Return(Ok(Map(self, value, limit)))

\* DescreteRanged::next_value / previous_value of the coordinate c
next_value(c, x) ==
    CASE c.coord = "RangedDate" -> RangedDate_next_value(x)
      [] c.coord = "Monthly" -> Monthly_next_value(c.T, x)
      [] c.coord = "Yearly" -> Yearly_next_value(c.T, x)

previous_value(c, x) ==
    CASE c.coord = "RangedDate" -> RangedDate_previous_value(x)
      [] c.coord = "Monthly" -> Monthly_previous_value(c.T, x)
      [] c.coord = "Yearly" -> Yearly_previous_value(c.T, x)

Step(name, r) ==
    /\ steps' = Append(steps, name)
    /\ ret' = r
    /\ value' = IF r.ok THEN r.v ELSE value
    /\ pc' = IF r.ok /\ Len(steps) + 1 < MaxSteps THEN "ready" ELSE "done"
    /\ UNCHANGED <<call, self, max_points, limit, value0>>
    /\ UNCHANGED <<target, img, saved>>

NextValue ==
    /\ pc = "ready" /\ call = "discrete"
    /\ Step("next_value", next_value(self, value))

PreviousValue ==
    /\ pc = "ready" /\ call = "discrete"
    /\ Step("previous_value", previous_value(self, value))

ComputePeriodPerPoint ==
    /\ pc = "ready" /\ call = "compute_period_per_point"
    /\ Return(compute_period_per_point(self.total_ns, max_points,
                                       self.sub_daily, self.res))

Next ==
    \/ RangedDateKeyPoints
    \/ MonthlyKeyPoints
    \/ YearlyKeyPoints
    \/ RangedDateTimeKeyPoints
    \/ RangedDurationKeyPoints
    \/ MapValue
    \/ NextValue
    \/ PreviousValue
    \/ ComputePeriodPerPoint

Spec == Init /\ [][Next]_vars

----------------------------------------------------------------------------
(* Vocabulary of the properties *)

KeyPointsDone == call = "key_points" /\ pc = "done"

\* a < b and a <= b for two values of the coordinate c
Lt(c, a, b) == IF c.T = "Duration" THEN a.n < b.n ELSE Before(c.T, a, b)

Leq(c, a, b) == ~Lt(c, b, a)

\* v lies in the half-open interval [begin, end) of the coordinate c
InInterval(c, v) == Leq(c, c.begin, v) /\ Lt(c, v, c.end)

\* the period the engine gives RangedDateTime::key_points (None: fallback)
DateTimePeriod(c, n) ==
    compute_period_per_point(subtract("DateTime", c.end, c.begin).n, n, TRUE, MilliRes)

\* the period the engine gives RangedDuration::key_points
DurationPeriod(c, n) ==
    compute_period_per_point(c.end.n - c.begin.n, n, FALSE, ResOf(c.begin.unit))

----------------------------------------------------------------------------
(* C1: every key point k that key_points(max_points) returns, for every    *)
(* coordinate type, interval with begin <= end and max_points >= 1, lies   *)
(* in the half-open interval: begin <= k < end.                            *)
(* The code violates it: RangedDate, Monthly and Yearly emit a key point   *)
(* equal to end, and RangedDateTime emits key points before begin.         *)
C1_KeyPointsInHalfOpenInterval ==
    (KeyPointsDone /\ max_points >= 1 /\ ret.ok)
        => \A i \in 1..Len(ret.v) : InInterval(self, ret.v[i])

----------------------------------------------------------------------------
\* a "round" span: whole days for RangedDate, whole months from a 1st to a
\* 1st for Monthly, whole years from a January 1st to a January 1st for
\* Yearly (at midnight, over date-times)
RoundSpan(c) ==
    LET b == date_floor(c.T, c.begin)
        e == date_floor(c.T, c.end)
        midnight == c.T = "Date" \/ (c.begin.time = 0 /\ c.end.time = 0)
    IN  \/ c.coord = "RangedDate"
        \/ c.coord = "Monthly" /\ midnight /\ day(b) = 1 /\ day(e) = 1
        \/ c.coord = "Yearly" /\ midnight /\ day(b) = 1 /\ day(e) = 1
             /\ month(b) = 1 /\ month(e) = 1

C3_KeyPointsTotal ==
    (KeyPointsDone /\ max_points >= 1
        /\ self.coord \in {"RangedDate", "RangedDateTime"})
        => ret.ok

(* C4: with max_points = 0, key_points of every coordinate type divides by *)
(* nothing that is zero and returns the empty sequence.                    *)
(* The code violates it: it panics or returns a key point.                 *)
C4_ZeroBudgetGivesNoKeyPoints ==
    (KeyPointsDone /\ max_points = 0) => (ret.ok /\ Len(ret.v) = 0)

----------------------------------------------------------------------------
MapDone == call = "map" /\ pc = "done"

(* C5: for every interval with begin < end and every pixel range (lo, hi), *)
(* reversed ones included, map(begin) = lo and map(end) is within 1 of hi, *)
(* on the nanosecond path and on the whole-day fallback path of            *)
(* TimeValue::map_coord and of RangedDuration::map.                        *)
C5_MapBoundary ==
    MapDone =>
        /\ value = self.begin => ret.v = limit[1]
        /\ value = self.end => Abs(ret.v - limit[2]) <= 1

\* C5's case: the end of an interval beyond the nanosecond range, mapped onto
\* a reversed pixel range, one unit off hi
C5_Witness ==
    /\ MapDone /\ value = self.end /\ limit[1] > limit[2]
    /\ self.coord = "RangedDuration"
    /\ ~ns_representable(Dur(SpanOf(self), self.begin.unit))
    /\ ret.v = limit[2] + 1

(* C6: map is monotone: for values a < b inside [begin, end), map(a) <=    *)
(* map(b) when lo <= hi and map(a) >= map(b) when lo > hi.                 *)
C6_MapMonotone ==
    (MapDone /\ InInterval(self, value)) =>
        \A off \in MapOffsets(self) :
            LET b == ValueAt(self, off)
            IN  (InInterval(self, b) /\ Lt(self, value, b)) =>
                    IF limit[1] <= limit[2]
                    THEN ret.v <= Map(self, b, limit)
                    ELSE ret.v >= Map(self, b, limit)

\* C6's case: a reversed pixel range and two values inside the interval whose
\* images differ
C6_Witness ==
    /\ MapDone /\ InInterval(self, value) /\ limit[1] > limit[2]
    /\ \E off \in MapOffsets(self) :
          /\ InInterval(self, ValueAt(self, off))
          /\ Lt(self, value, ValueAt(self, off))
          /\ ret.v > Map(self, ValueAt(self, off), limit)

----------------------------------------------------------------------------
\* the day of the month of a value of type T
DayOfMonth(T, x) == day(date_floor(T, x))

AtMidnight(T, x) == T = "Date" \/ x.time = 0

\* the two round trips: previous_value then next_value, and the reverse
RoundTripDone ==
    /\ call = "discrete"
    /\ steps \in {<<"previous_value", "next_value">>,
                  <<"next_value", "previous_value">>}
    /\ ret.ok

(* C7, as claimed: for RangedDate, Monthly and Yearly and every value x    *)
(* whose day of the month is at most 28, next_value(previous_value(x)) = x *)
(* and previous_value(next_value(x)) = x, also for a Yearly x that is not  *)
(* January 1st and a Monthly or Yearly date-time x that is not midnight.   *)
C7_RoundTripUpToDay28 ==
    (RoundTripDone /\ DayOfMonth(self.T, value0) <= 28) => value = value0

(* C7, amended: the round trips return x for every RangedDate value x, for *)
(* every Monthly value x whose day of the month is at most 28 and which,   *)
(* over date-times, is at midnight, and for every Yearly value x that is   *)
(* January 1st (at midnight, over date-times).                             *)
C7_RoundTripOnTheGrid ==
    (RoundTripDone
        /\ \/ self.coord = "RangedDate"
           \/ /\ self.coord = "Monthly"
              /\ DayOfMonth(self.T, value0) <= 28
              /\ AtMidnight(self.T, value0)
           \/ /\ self.coord = "Yearly"
              /\ DayOfMonth(self.T, value0) = 1
              /\ month(date_floor(self.T, value0)) = 1
              /\ AtMidnight(self.T, value0))
        => value = value0

\* C7's case: a Monthly round trip out of January into the year before and
\* back
C7_Witness ==
    /\ RoundTripDone /\ self.coord = "Monthly" /\ self.T = "DateTime"
    /\ steps = <<"previous_value", "next_value">>
    /\ month(date_floor(self.T, value0)) = 1
    /\ value = value0

PeriodDone == call = "compute_period_per_point" /\ pc = "done"

(* C8, as claimed: compute_period_per_point(total_ns, max_points, true)    *)
(* returns None whenever total_ns exceeds one day, for every               *)
(* max_points >= 1.                                                        *)
C8_NoneBeyondOneDay ==
    (PeriodDone /\ self.sub_daily /\ max_points >= 1 /\ self.res = MilliRes
        /\ self.total_ns > MsPerDay)
        => ret = Ok(None)

(* C8, amended: compute_period_per_point(total_ns, max_points, true)       *)
(* returns None whenever the span per point, total_ns / max_points, is at  *)
(* least 10^14 ns (about 27.8 hours), and returns a period whenever that   *)
(* span per point is at most one day, for every max_points >= 1; a span    *)
(* longer than one day with enough points still gets a period.             *)
C8_NoneFromTenToThe14PerPoint ==
    (PeriodDone /\ self.sub_daily /\ max_points >= 1)
        => /\ (self.res = MilliRes
                  /\ self.total_ns >= max_points * Pow10(14 - 6))
               => ret = Ok(None)
           /\ (self.res = NanoRes \/ self.total_ns <= max_points * MsPerDay)
               => (ret.ok /\ ret.v # None)

\* C8's case: a span beyond one day for which the search returns None
C8_Witness ==
    /\ PeriodDone /\ self.sub_daily /\ max_points >= 2 /\ self.res = MilliRes
    /\ self.total_ns > MsPerDay
    /\ ret = Ok(None)

(* C9: when the period engine gives RangedDateTime::key_points a period p, *)
(* the first tick is the earliest instant t >= begin whose time of day is  *)
(* a multiple of p; it is carried into the next day when the rounding      *)
(* reaches 24:00 and is never before begin.                                *)
(* The code violates it: the rounded time of day wraps around at 24:00     *)
(* while the date stays that of begin.                                     *)
C9_FirstTickAtOrAfterBegin ==
    (KeyPointsDone /\ self.coord = "RangedDateTime" /\ max_points >= 1
        /\ ret.ok /\ DateTimePeriod(self, max_points).v # None
        /\ Len(ret.v) > 0)
        => LET p == DateTimePeriod(self, max_points).v[1]
               first == ret.v[1]
           IN  /\ Leq(self, self.begin, first)
               /\ first.time % p = 0
               /\ subtract("DateTime", first, self.begin).n < p

(* C10: on the nanosecond path of RangedDuration::key_points with period   *)
(* p, the first tick is the smallest multiple of p that is >= begin, for   *)
(* positive and for negative begin, and every tick is a multiple of p.     *)
(* The code violates it: it tests `start_ns as u64 % period`, and          *)
(* 2^64 + start_ns can be a multiple of p when start_ns is not.            *)
C10_FirstTickSmallestMultiple ==
    (KeyPointsDone /\ self.coord = "RangedDuration" /\ max_points >= 1
        /\ ret.ok /\ ns_representable(Dur(SpanOf(self), self.begin.unit))
        /\ Len(ret.v) > 0)
        => LET p == DurationPeriod(self, max_points).v[1]
           IN  /\ ret.v[1].n >= self.begin.n
               /\ ret.v[1].n - self.begin.n < p
               /\ \A i \in 1..Len(ret.v) : ret.v[i].n % p = 0

----------------------------------------------------------------------------
\* a RangedDate interval of exactly three weeks asked for two key points
ThreeWeeksTwoPoints ==
    /\ KeyPointsDone /\ self.coord = "RangedDate"
    /\ self.end = self.begin + 21
    /\ max_points = 2

(* C11, as claimed: for a RangedDate interval of exactly 3 weeks and       *)
(* max_points = 2, key_points returns the weekly key points begin,         *)
(* begin + 7 days and begin + 14 days.                                     *)
C11_ThreeWeeksWeekly ==
    ThreeWeeksTwoPoints
        => ret = Ok(<<self.begin, self.begin + 7, self.begin + 14>>)

(* C11, amended: for a RangedDate interval of exactly 3 weeks and          *)
(* max_points = 2, key_points returns the two key points begin and         *)
(* begin + 14 days, two weeks apart (week_per_point = ceil(3 / 2) = 2).    *)
C11_ThreeWeeksFortnightly ==
    ThreeWeeksTwoPoints => ret = Ok(<<self.begin, self.begin + 14>>)

\* C11's case: the three-week interval has been asked for two key points
C11_Witness == ThreeWeeksTwoPoints /\ ret.ok /\ Len(ret.v) = max_points

----------------------------------------------------------------------------
\* the period search has returned a period for a span and a budget of at
\* least 1
PeriodFound ==
    /\ PeriodDone /\ self.total_ns >= 1 /\ max_points >= 1
    /\ ret.ok /\ ret.v # None

(* C12: for every total_ns >= 1 and max_points >= 1 for which              *)
(* compute_period_per_point returns Some(p), in either sub_daily mode, the *)
(* search terminates with p >= 1 and total_ns / p <= max_points (integer   *)
(* division), so that RangedDuration::key_points, stepping by p, returns   *)
(* at most max_points + 1 ticks.                                           *)
C12_PeriodKeepsBudget ==
    /\ PeriodFound
          => /\ ret.v[1] >= 1
             /\ self.total_ns \div ret.v[1] <= max_points
    /\ (KeyPointsDone /\ self.coord = "RangedDuration" /\ max_points >= 1
           /\ ret.ok)
          => Len(ret.v) <= max_points + 1

\* C12's case: a search that had to leave the seed's first multiplier, and
\* meets the budget exactly
C12_Witness ==
    /\ PeriodFound
    /\ ret.v[1] > Pow10(Log10Floor(self.total_ns \div max_points))
    /\ self.total_ns \div ret.v[1] = max_points

----------------------------------------------------------------------------
\* the months from the normalized start of a Monthly coordinate to the month
\* of its end
TotalMonths(c) ==
    LET start    == NormalizedStart(c.T, c.begin)
        end_date == date_floor(c.T, c.end)
    IN  (year(end_date) - start.year) * 12 + month(end_date) - start.month

\* the step the claim gives Monthly::key_points: 1, 3 or 6 months, or 0 for
\* the yearly algorithm
MonthlyStep(total_months, n) ==
    IF total_months <= n THEN 1
    ELSE IF total_months <= n * 3 THEN 3
    ELSE IF total_months <= n * 6 THEN 6
    ELSE 0

\* months since year 0 of the month a value lies in
MonthIndex(T, x) == year(date_floor(T, x)) * 12 + (month(date_floor(T, x)) - 1)

FirstOfMonth(T, x) == day(date_floor(T, x)) = 1 /\ AtMidnight(T, x)

MonthlyDone == KeyPointsDone /\ self.coord = "Monthly"

(* C13: Monthly::key_points steps by 1 month when total_months <=          *)
(* max_points, else by 3 months when total_months <= max_points * 3, else  *)
(* by 6 months when total_months <= max_points * 6 (boundaries inclusive), *)
(* and else delegates to the yearly algorithm; with a step s in {1, 3, 6}  *)
(* every point is the first day of a month, the points start at the       *)
(* normalized start and run to the month of the end, consecutive points    *)
(* are exactly s calendar months apart, and the year is carried when the   *)
(* month number passes 12.                                                 *)
C13_MonthlyStepSelection ==
    MonthlyDone
        => LET total_months == TotalMonths(self)
               s     == MonthlyStep(total_months, max_points)
               start == NormalizedStart(self.T, self.begin)
           IN  IF s = 0
               THEN ret = Yearly_key_points(self, max_points)
               ELSE /\ ret.ok
                    /\ Len(ret.v) = IF total_months < 0 THEN 0
                                    ELSE total_months \div s + 1
                    /\ \A i \in 1..Len(ret.v) :
                          /\ FirstOfMonth(self.T, ret.v[i])
                          /\ MonthIndex(self.T, ret.v[i])
                                = start.year * 12 + (start.month - 1)
                                    + (i - 1) * s

\* C13's case: a boundary of the selection (total_months = max_points * 6)
\* with a step of 6 months that carries the year
C13_Witness ==
    /\ MonthlyDone /\ ret.ok
    /\ TotalMonths(self) = max_points * 6
    /\ Len(ret.v) >= 3
    /\ MonthIndex(self.T, ret.v[2]) - MonthIndex(self.T, ret.v[1]) = 6
    /\ year(date_floor(self.T, ret.v[3])) > year(date_floor(self.T, ret.v[1]))

----------------------------------------------------------------------------
(* BitMapBackend (src/src/drawing/backend_impl/bitmap.rs)                  *)

\* RgbImage::new(width, height): every byte is 0
RgbImage_new(width, height) ==
    [width |-> width, height |-> height,
     data |-> [i \in 1..(width * height * 3) |-> 0]]

\* RgbImage::into_raw
into_raw(image) == image.data

\* the index in data of the first byte of the pixel (x, y)
PixelBase(image, x, y) == (y * image.width + x) * 3

\* RgbImage::put_pixel(x, y, Rgb { data: rgb })
put_pixel(image, x, y, rgb) ==
    [image EXCEPT !.data =
        [i \in DOMAIN image.data |->
            IF i - PixelBase(image, x, y) \in 1..3
            THEN rgb[i - PixelBase(image, x, y)]
            ELSE image.data[i]]]

\* (f64::from(old) * (1.0 - alpha) + f64::from(new) * alpha).min(255.0) as u8,
\* for an alpha of num / den in 0..1
Blend(old, new, alpha) ==
    LET mixed == (old * (alpha[2] - alpha[1]) + new * alpha[1]) \div alpha[2]
    IN  IF mixed > 255 THEN 255 ELSE mixed

\* the image after BitMapBackend::draw_pixel(point, color)
draw_pixel(image, point, rgb, alpha) ==
    IF \/ point[1] < 0 \/ point[1] >= image.width
       \/ point[2] < 0 \/ point[2] >= image.height
    THEN image
    ELSE IF alpha[1] >= alpha[2]
    THEN put_pixel(image, point[1], point[2], rgb)
    ELSE put_pixel(image, point[1], point[2],
             [k \in 1..3 |->
                 Blend(image.data[PixelBase(image, point[1], point[2]) + k],
                       rgb[k], alpha)])

\* BitMapBackend::get_size
get_size(image) == <<image.width, image.height>>

\* GifFile::flush_frame: the image is swapped for a fresh one of the GIF's
\* size before the frame is written; io_ok tells whether the write succeeds
flush_frame(t, image, io_ok) ==
    [target |-> IF io_ok THEN [t EXCEPT !.data = Append(@, into_raw(image))]
                ELSE t,
     img    |-> RgbImage_new(t.width, t.height),
     ok     |-> io_ok]

\* BitMapBackend::present on the target t with image `image` and flag sv:
\* the target, image and flag after it, and whether it returned Ok
present(t, image, sv, io_ok) ==
    CASE t.kind = "File" ->
           IF io_ok
           THEN [target |-> [t EXCEPT !.width = image.width,
                                      !.height = image.height,
                                      !.data = into_raw(image)],
                 img |-> image, saved |-> TRUE, ok |-> TRUE]
           ELSE [target |-> t, img |-> image, saved |-> sv, ok |-> FALSE]
      [] t.kind = "Buffer" ->
           [target |-> [t EXCEPT !.data = into_raw(image)],
            img |-> RgbImage_new(1, 1), saved |-> sv, ok |-> TRUE]
      [] t.kind = "Gif" ->
           LET f == flush_frame(t, image, io_ok)
           IN  [target |-> f.target, img |-> f.img,
                saved |-> IF f.ok THEN TRUE ELSE sv, ok |-> f.ok]

\* the constructors' arguments
Dimensions == (1..MaxDim) \X (1..MaxDim)

\* the points drawn at: inside the largest image and just outside it
Points == (-1..MaxDim) \X (-1..MaxDim)

\* the colours drawn with: <<rgb, alpha>>, alpha a fraction <<num, den>>
Colors ==
    {<<255, 0, 0>>, <<0, 255, 255>>} \X {<<1, 2>>, <<1, 1>>}

\* what the caller's Vec<u8> holds before the backend writes to it
BufferContents == {<<>>, <<255>>}

\* BitMapBackend::new(path, dimension)
BitMapBackend_new(dimension) ==
    /\ target = [kind |-> "File", width |-> 0, height |-> 0, data |-> <<>>]
    /\ img = RgbImage_new(dimension[1], dimension[2])
    /\ saved = FALSE

\* BitMapBackend::gif(path, dimension, frame_delay)
BitMapBackend_gif(dimension) ==
    /\ target = [kind |-> "Gif", width |-> dimension[1],
                 height |-> dimension[2], data |-> <<>>]
    /\ img = RgbImage_new(dimension[1], dimension[2])
    /\ saved = FALSE

\* BitMapBackend::with_buffer(buf, dimension)
BitMapBackend_with_buffer(buf, dimension) ==
    /\ target = [kind |-> "Buffer", width |-> 0, height |-> 0, data |-> buf]
    /\ img = RgbImage_new(dimension[1], dimension[2])
    /\ saved = FALSE

\* a backend just constructed
BitMapInit ==
    /\ call = "bitmap"
    /\ pc = "ready"
    /\ steps = <<>>
    /\ ret = Ok(NoValue)
    /\ max_points = 0
    /\ limit = <<0, 0>>
    /\ value = NoValue
    /\ value0 = NoValue
    /\ \E dimension \in Dimensions :
          /\ self = [coord |-> "BitMapBackend", dimension |-> dimension]
          /\ \/ BitMapBackend_new(dimension)
             \/ BitMapBackend_gif(dimension)
             \/ \E buf \in BufferContents :
                   BitMapBackend_with_buffer(buf, dimension)

\* one operation on the live backend, recorded in steps
Operation(name, r) ==
    /\ steps' = Append(steps, name)
    /\ ret' = r
    /\ UNCHANGED <<call, self, max_points, limit, value, value0>>

Live == call = "bitmap" /\ pc = "ready"

DrawPixel ==
    /\ Live /\ Len(steps) < MaxOps
    /\ \E point \in Points, color \in Colors :
          img' = draw_pixel(img, point, color[1], color[2])
    /\ Operation("draw_pixel", Ok(NoValue))
    /\ UNCHANGED <<pc, target, saved>>

EnsurePrepared ==
    /\ Live /\ Len(steps) < MaxOps
    /\ saved' = FALSE
    /\ Operation("ensure_prepared", Ok(NoValue))
    /\ UNCHANGED <<pc, target, img>>

Present ==
    /\ Live /\ Len(steps) < MaxOps
    /\ \E io_ok \in BOOLEAN :
          LET r == present(target, img, saved, io_ok)
          IN  /\ target' = r.target
              /\ img' = r.img
              /\ saved' = r.saved
              /\ Operation(IF r.ok THEN "present" ELSE "present_err",
                           Ok(NoValue))
    /\ UNCHANGED pc

\* Drop for BitMapBackend: present once more unless saved; a failure of
\* that present panics (expect)
Drop ==
    /\ Live
    /\ pc' = "done"
    /\ IF saved
       THEN /\ UNCHANGED <<target, img, saved>>
            /\ Operation("drop", Ok(NoValue))
       ELSE \E io_ok \in BOOLEAN :
               LET r == present(target, img, saved, io_ok)
               IN  /\ target' = r.target
                   /\ img' = r.img
                   /\ saved' = r.saved
                   /\ Operation("drop", IF r.ok THEN Ok(NoValue) ELSE Panic)

BitMapNext ==
    \/ DrawPixel
    \/ EnsurePrepared
    \/ Present
    \/ Drop

BitMapSpec == BitMapInit /\ [][BitMapNext]_vars

----------------------------------------------------------------------------
\* present() has succeeded and ensure_prepared() has not been called since
PresentedAndNotPreparedSince ==
    \E i \in 1..Len(steps) :
        /\ steps[i] = "present"
        /\ \A j \in (i + 1)..Len(steps) : steps[j] # "ensure_prepared"

\* the step that drops the backend
Dropping == Live /\ pc' = "done"

(* C14: for a BitMapBackend of every target kind (File, Buffer, Gif), once *)
(* present() has succeeded and no ensure_prepared() has been called since, *)
(* dropping the backend does not present again: the target still holds     *)
(* exactly what that present() wrote; for a Buffer target the buffer still *)
(* holds the width * height * 3 bytes of the drawn image, and present()    *)
(* has left the size reported by get_size unchanged.                       *)
(* The code violates it for the Buffer target: present() swaps the image   *)
(* for a 1 x 1 image and never sets saved, so drop presents that image.    *)
C14_DropKeepsPresentedImage ==
    [][(Dropping /\ PresentedAndNotPreparedSince)
          => /\ target' = target
             /\ target.kind = "Buffer"
                   => /\ Len(target'.data)
                            = self.dimension[1] * self.dimension[2] * 3
                      /\ get_size(img) = self.dimension]_vars

====
